---- MODULE Spec2Model ----
(***************************************************************************)
(* Streaming SipHash-2-4 engine of dbms/src/Common/SipHash.h.              *)
(*                                                                         *)
(* A u64 is modelled with its full width as the tuple of its 8 bytes,      *)
(* least significant byte first.  That is also the layout of the union     *)
(* { u64 current_word; u8 current_bytes[8]; } on the little-endian hosts   *)
(* the code is built for, so current_bytes[i] is element i+1 of the tuple  *)
(* and current_word is the tuple itself.                                   *)
(***************************************************************************)
EXTENDS Integers, Sequences, FiniteSets, TLC

----------------------------------------------------------------------------
(* 64-bit words                                                            *)

Byte == 0..255

\* F(x), and F4(F3(F2(F1(x)))): statements run one after the other.  Written
\* so that TLC evaluates each stage to a value before it applies the next; an
\* operator's argument is otherwise evaluated where the operator first uses
\* it, and a long chain of calls nests as deep as it is long.
Strict(x, F(_)) == CHOOSE r \in { F(v) : v \in {x} } : TRUE
Seq4(x, F1(_), F2(_), F3(_), F4(_)) ==
    CHOOSE r \in { F4(c) : c \in { F3(b) : b \in { F2(a) : a \in
                     { F1(v) : v \in {x} } } } } : TRUE

\* a ^ b on n-bit operands
RECURSIVE BitXor(_, _, _)
BitXor(a, b, n) ==
    IF n = 0 THEN 0
    ELSE (((a % 2) + (b % 2)) % 2) + 2 * BitXor(a \div 2, b \div 2, n - 1)

\* the table of a ^ b on bytes, entry [a + 1][b + 1]
XorTable == [a \in 1..256 |-> [b \in 1..256 |-> BitXor(a - 1, b - 1, 8)]]

XorByte(a, b) == XorTable[a + 1][b + 1]

\* u64 a ^ b
Xor64(a, b) ==
    << XorByte(a[1], b[1]), XorByte(a[2], b[2]), XorByte(a[3], b[3]),
       XorByte(a[4], b[4]), XorByte(a[5], b[5]), XorByte(a[6], b[6]),
       XorByte(a[7], b[7]), XorByte(a[8], b[8]) >>

\* u64 a + b, wrapping at 2^64 (the carry out of byte 8 is dropped)
Add64(a, b) ==
    LET c1 == 0
        c2 == (a[1] + b[1] + c1) \div 256
        c3 == (a[2] + b[2] + c2) \div 256
        c4 == (a[3] + b[3] + c3) \div 256
        c5 == (a[4] + b[4] + c4) \div 256
        c6 == (a[5] + b[5] + c5) \div 256
        c7 == (a[6] + b[6] + c6) \div 256
        c8 == (a[7] + b[7] + c7) \div 256
    IN  << (a[1] + b[1] + c1) % 256, (a[2] + b[2] + c2) % 256,
           (a[3] + b[3] + c3) % 256, (a[4] + b[4] + c4) % 256,
           (a[5] + b[5] + c5) % 256, (a[6] + b[6] + c6) % 256,
           (a[7] + b[7] + c7) % 256, (a[8] + b[8] + c8) % 256 >>

\* static_cast<u64>(((x) << (b)) | ((x) >> (64 - (b)))), 0 < b < 64:
\* byte i of the result takes its high 8 - r bits from the low bits of byte
\* i - q of x and its low r bits from the high bits of byte i - q - 1
ROTL(x, b) ==
    LET q == b \div 8
        r == b % 8
        up == 2 ^ r
        cut == 2 ^ (8 - r)
        byte(i) == ((x[((i - 1 - q) % 8) + 1] % cut) * up)
                     + (x[((i - 2 - q) % 8) + 1] \div cut)
    IN  << byte(1), byte(2), byte(3), byte(4), byte(5), byte(6), byte(7), byte(8) >>

\* the u64 with value n, for 0 <= n < 2^31
U64(n) ==
    << (n % 256), ((n \div 256) % 256), ((n \div 65536) % 256), (n \div 16777216),
       0, 0, 0, 0 >>

Zero64 == U64(0)

\* SIPROUND, statement by statement, on the record s of the members
\* v0 += v1; v1 = ROTL(v1, 13);
Round1(s) == [s EXCEPT !.v0 = Add64(s.v0, s.v1), !.v1 = ROTL(s.v1, 13)]
\* v1 ^= v0; v0 = ROTL(v0, 32);
Round2(s) == [s EXCEPT !.v1 = Xor64(s.v1, s.v0), !.v0 = ROTL(s.v0, 32)]
\* v2 += v3; v3 = ROTL(v3, 16);
Round3(s) == [s EXCEPT !.v2 = Add64(s.v2, s.v3), !.v3 = ROTL(s.v3, 16)]
\* Round4 as an assignment, v3 = v2: what v3 held is lost
Round4Assign(s) == [s EXCEPT !.v3 = s.v2]
\* v3 ^= v2;
Round4(s) == [s EXCEPT !.v3 = Xor64(s.v3, s.v2)]
\* v0 += v3; v3 = ROTL(v3, 21);
Round5(s) == [s EXCEPT !.v0 = Add64(s.v0, s.v3), !.v3 = ROTL(s.v3, 21)]
\* v3 ^= v0;
Round6(s) == [s EXCEPT !.v3 = Xor64(s.v3, s.v0)]
\* v2 += v1; v1 = ROTL(v1, 17);
Round7(s) == [s EXCEPT !.v2 = Add64(s.v2, s.v1), !.v1 = ROTL(s.v1, 17)]
\* v1 ^= v2; v2 = ROTL(v2, 32);
Round8(s) == [s EXCEPT !.v1 = Xor64(s.v1, s.v2), !.v2 = ROTL(s.v2, 32)]

SIPROUND(s) ==
    Round8(Round7(Round6(Round5(Round4(Round3(Round2(Round1(s))))))))

----------------------------------------------------------------------------
(* The engine: class SipHash                                               *)

\* 0x736f6d6570736575, 0x646f72616e646f6d, 0x6c7967656e657261,
\* 0x7465646279746573, least significant byte first
InitV0 == << 117, 101, 115, 112, 101, 109, 111, 115 >>
InitV1 == << 109, 111, 100, 110, 97, 114, 111, 100 >>
InitV2 == << 97, 114, 101, 110, 101, 103, 121, 108 >>
InitV3 == << 115, 101, 116, 121, 98, 100, 101, 116 >>

\* SipHash(u64 k0 = 0, u64 k1 = 0)
SipHash(k0, k1) ==
    [ v0 |-> Xor64(InitV0, k0),
      v1 |-> Xor64(InitV1, k1),
      v2 |-> Xor64(InitV2, k0),
      v3 |-> Xor64(InitV3, k1),
      cnt |-> Zero64,
      current_bytes |-> Zero64 ]

\* cnt & 7
CntAnd7(s) == s.cnt[1] % 8

\* The caller's memory: `bytes` are the size bytes at data[0 .. size-1]; what
\* lies at data[size] and beyond is not the caller's buffer, and a read there
\* yields the arbitrary byte `past`.
MemAt(mem, i) == IF i < Len(mem.bytes) THEN mem.bytes[i + 1] ELSE mem.past

\* A call of update in progress: the engine, the offset of `data` from its
\* value at entry, the offsets read through data so far, the current_bytes
\* indices written so far, and the number of SIPROUNDs run.
Enter(s) == [ s |-> s, data |-> 0, reads |-> << >>, writes |-> << >>, rounds |-> 0 ]

\* TopUp with the loop condition cnt & 7 alone: the loop runs on past end
\* until a word is complete
RECURSIVE TopUpNoEnd(_, _, _)
TopUpNoEnd(t, mem, end) ==
    IF CntAnd7(t.s) # 0
    THEN TopUpNoEnd([ t EXCEPT !.s.current_bytes[CntAnd7(t.s) + 1] = MemAt(mem, t.data),
                               !.s.cnt = Add64(t.s.cnt, U64(1)),
                               !.data = t.data + 1,
                               !.reads = Append(t.reads, t.data),
                               !.writes = Append(t.writes, CntAnd7(t.s)) ],
                    mem, end)
    ELSE t

\* update, lines 90-95: while (cnt & 7 && data < end) { ... }
RECURSIVE TopUp(_, _, _)
TopUp(t, mem, end) ==
    IF CntAnd7(t.s) # 0 /\ t.data < end
    THEN TopUp([ t EXCEPT !.s.current_bytes[CntAnd7(t.s) + 1] = MemAt(mem, t.data),
                          !.s.cnt = Add64(t.s.cnt, U64(1)),
                          !.data = t.data + 1,
                          !.reads = Append(t.reads, t.data),
                          !.writes = Append(t.writes, CntAnd7(t.s)) ],
               mem, end)
    ELSE t

\* v3 ^= current_word;
XorIntoV3(s) == [s EXCEPT !.v3 = Xor64(s.v3, s.current_bytes)]
\* v0 ^= current_word;
XorIntoV0(s) == [s EXCEPT !.v0 = Xor64(s.v0, s.current_bytes)]

\* MixPending with one SIPROUND where the word loop runs two
MixPendingOneRound(t) ==
    [ t EXCEPT !.s = XorIntoV0(SIPROUND(XorIntoV3(t.s))),
               !.rounds = t.rounds + 1 ]

\* update, lines 101-104: the completed pending word is compressed
MixPending(t) ==
    [ t EXCEPT !.s = Seq4(t.s, XorIntoV3, SIPROUND, SIPROUND, XorIntoV0),
               !.rounds = t.rounds + 2 ]

\* update, line 111: current_word = *reinterpret_cast<const u64 *>(data)
LoadWord(t, mem) ==
    [ t EXCEPT !.s.current_bytes =
                   << MemAt(mem, t.data), MemAt(mem, t.data + 1),
                      MemAt(mem, t.data + 2), MemAt(mem, t.data + 3),
                      MemAt(mem, t.data + 4), MemAt(mem, t.data + 5),
                      MemAt(mem, t.data + 6), MemAt(mem, t.data + 7) >>,
               !.reads = t.reads \o [i \in 1..8 |-> t.data + i - 1],
               !.writes = t.writes \o [i \in 1..8 |-> i - 1] ]

\* MixWord without v0 ^= current_word
MixWordNoV0(t) ==
    [ t EXCEPT !.s = SIPROUND(SIPROUND(XorIntoV3(t.s))),
               !.data = t.data + 8,
               !.rounds = t.rounds + 2 ]

\* update, lines 113-118: the word is compressed; data += 8
MixWord(t) ==
    [ t EXCEPT !.s = Seq4(t.s, XorIntoV3, SIPROUND, SIPROUND, XorIntoV0),
               !.data = t.data + 8,
               !.rounds = t.rounds + 2 ]

\* WordLoop with the loop condition data + 7 <= end
RECURSIVE WordLoopOver(_, _, _)
WordLoopOver(t, mem, end) ==
    IF t.data + 7 <= end
    THEN Strict(MixWord(LoadWord(t, mem)), LAMBDA u : WordLoopOver(u, mem, end))
    ELSE t

\* update, lines 109-119: while (data + 8 <= end) { ... }
RECURSIVE WordLoop(_, _, _)
WordLoop(t, mem, end) ==
    IF t.data + 8 <= end
    THEN Strict(MixWord(LoadWord(t, mem)), LAMBDA u : WordLoop(u, mem, end))
    ELSE t

\* Remainder with a break after each case: only data[n-1] is copied
RemainderBreaks(t, mem, end) ==
    LET n == end - t.data
        k == IF n \in 0..7 THEN n ELSE 0
    IN  [ t EXCEPT !.s.current_bytes =
                       [i \in 1..8 |-> IF i = k THEN MemAt(mem, t.data + i - 1) ELSE 0],
                   !.reads = t.reads \o [i \in 1..(IF k > 0 THEN 1 ELSE 0) |-> t.data + k - 1],
                   !.writes = t.writes \o [i \in 1..8 |-> i - 1]
                                       \o [i \in 1..(IF k > 0 THEN 1 ELSE 0) |-> k - 1] ]

\* Remainder with the cases off by one: case n copies data[n] .. data[0]
RemainderOver(t, mem, end) ==
    LET n == end - t.data
        k == IF n \in 0..7 THEN n + 1 ELSE 0
    IN  [ t EXCEPT !.s.current_bytes =
                       [i \in 1..8 |-> IF i <= k THEN MemAt(mem, t.data + i - 1) ELSE 0],
                   !.reads = t.reads \o [i \in 1..k |-> t.data + k - i],
                   !.writes = t.writes \o [i \in 1..8 |-> i - 1]
                                       \o [i \in 1..k |-> k - i] ]

\* Remainder without current_word = 0: the bytes above the remainder keep
\* what the last word left there
RemainderNoZero(t, mem, end) ==
    LET n == end - t.data
        k == IF n \in 0..7 THEN n ELSE 0
    IN  [ t EXCEPT !.s.current_bytes =
                       [i \in 1..8 |-> IF i <= k THEN MemAt(mem, t.data + i - 1)
                                       ELSE t.s.current_bytes[i]],
                   !.reads = t.reads \o [i \in 1..k |-> t.data + k - i],
                   !.writes = t.writes \o [i \in 1..k |-> k - i] ]

\* update, lines 122-133: current_word = 0; switch (end - data) with the
\* cases 7 .. 1 falling through, case n copying data[n-1]; no default.
Remainder(t, mem, end) ==
    LET n == end - t.data
        k == IF n \in 0..7 THEN n ELSE 0
    IN  [ t EXCEPT !.s.current_bytes =
                       [i \in 1..8 |-> IF i <= k THEN MemAt(mem, t.data + i - 1) ELSE 0],
                   !.reads = t.reads \o [i \in 1..k |-> t.data + k - i],
                   !.writes = t.writes \o [i \in 1..8 |-> i - 1]
                                       \o [i \in 1..k |-> k - i] ]

\* Advance by the whole size of the call, the bytes that completed the
\* pending word counted a second time
AdvanceBySize(t, end) == [t EXCEPT !.s.cnt = Add64(t.s.cnt, U64(end))]

\* update, line 107: cnt += end - data
Advance(t, end) == [t EXCEPT !.s.cnt = Add64(t.s.cnt, U64(end - t.data))]

\* update, lines 107-133
Aligned(t, mem, end) == Remainder(WordLoop(Advance(t, end), mem, end), mem, end)

\* Pending without the early return of lines 98-99: the pending word is
\* compressed whether it is complete or not
PendingNoReturn(t, mem, end) == Aligned(MixPending(t), mem, end)

\* update, lines 97-105, t being the call after the loop of lines 90-95
Pending(t, mem, end) ==
    IF CntAnd7(t.s) # 0 THEN t ELSE Aligned(MixPending(t), mem, end)

\* void update(const char * data, u64 size), with end = data + size
update(s, mem, size) ==
    IF CntAnd7(s) # 0
    THEN Pending(TopUp(Enter(s), mem, size), mem, size)
    ELSE Aligned(Enter(s), mem, size)

\* finalize, line 55: current_bytes[7] = cnt
StoreLength(s) == [s EXCEPT !.current_bytes[8] = s.cnt[1]]

\* XorFF with the constant 0xee of the 128-bit SipHash variant
XorEE(s) == [s EXCEPT !.v2 = Xor64(s.v2, U64(238))]

\* finalize, line 62: v2 ^= 0xff
XorFF(s) == [s EXCEPT !.v2 = Xor64(s.v2, U64(255))]

\* finalize, lines 57-60: the last word is compressed
MixLast(s) == Seq4(s, XorIntoV3, SIPROUND, SIPROUND, XorIntoV0)

\* finalize, lines 63-66: SIPROUND; SIPROUND; SIPROUND; SIPROUND;
FourRounds(s) == Seq4(s, SIPROUND, SIPROUND, SIPROUND, SIPROUND)

\* finalize with v2 ^= 0xff moved before the last word is compressed
finalizeFFFirst(s) == Seq4(s, StoreLength, XorFF, MixLast, FourRounds)

\* void finalize()
finalize(s) == Seq4(s, StoreLength, MixLast, XorFF, FourRounds)

\* Return64 without lane 3
Return64NoV3(f) == [ s |-> f, out |-> Xor64(Xor64(f.v0, f.v1), f.v2) ]

\* what a digest call leaves and returns, f being the members after finalize()
Return64(f) == [ s |-> f, out |-> Xor64(Xor64(Xor64(f.v0, f.v1), f.v2), f.v3) ]
Return128(f) == [ s |-> f, out |-> [ lo |-> Xor64(f.v0, f.v1), hi |-> Xor64(f.v2, f.v3) ] ]
\* Return128Buf with the high word written first
Return128BufHighFirst(f) == [ s |-> f, out |-> Xor64(f.v2, f.v3) \o Xor64(f.v0, f.v1) ]
Return128Buf(f) == [ s |-> f, out |-> Xor64(f.v0, f.v1) \o Xor64(f.v2, f.v3) ]

\* u64 get64()
get64(s) == Strict(finalize(s), Return64)

\* void get128(u64 & lo, u64 & hi)
get128(s) == Strict(finalize(s), Return128)

\* void get128(char * out): the 16 bytes written at out[0 .. 15]
get128buf(s) == Strict(finalize(s), Return128Buf)

\* void sipHash128(const char * data, const size_t size, char * out): the 16
\* bytes written at out
sipHash128(mem, size) ==
    Strict(update(SipHash(Zero64, Zero64), mem, size).s, LAMBDA h : get128buf(h).out)

\* DB::UInt64 sipHash64(const char * data, const size_t size)
sipHash64(mem, size) ==
    Strict(update(SipHash(Zero64, Zero64), mem, size).s, LAMBDA h : get64(h).out)

----------------------------------------------------------------------------
(* Callers                                                                 *)

MaxStream == 18      \* bytes an owner that follows no script gives its engine
MaxChunk == 16       \* largest size passed to one update call
MaxDigests == 2      \* digest calls made on one engine
MaxLate == 2         \* bytes passed to update on one engine after a digest call

\* the key of the published SipHash-2-4 vectors: bytes 00 .. 0f
TestK0 == << 0, 1, 2, 3, 4, 5, 6, 7 >>
TestK1 == << 8, 9, 10, 11, 12, 13, 14, 15 >>

Keys == { [k0 |-> Zero64, k1 |-> Zero64], [k0 |-> TestK0, k1 |-> TestK1] }

\* the keys of two engines that are compared: also a key that differs from
\* (0, 0) in one bit of k0 and one that differs from it in one bit of k1
Keys2 == Keys \cup { [k0 |-> U64(1), k1 |-> Zero64],
                     [k0 |-> Zero64, k1 |-> << 0, 0, 0, 0, 0, 0, 0, 128 >>] }

\* The message a caller hashes: byte p (0-based) of it.  "up" is the message
\* 00 01 02 .. of the published vectors, "down" is ff fe fd ..
Fills == { "up", "down" }
FillAt(f, p) == IF f = "up" THEN p % 256 ELSE 255 - (p % 256)

\* bytes from .. from+n-1 of the message
Slice(f, from, n) == [i \in 1..n |-> FillAt(f, from + i - 1)]

PastBytes == { 0, 165 }

NoRet == [ op |-> "none" ]
NoAcc == [ size |-> -1, reads |-> << >>, writes |-> << >>, rounds |-> 0 ]

\* the calls an owner makes on its engine
CallUpdate(n) == [ op |-> "update", size |-> n ]
CallGet64 == [ op |-> "get64", size |-> 0 ]
CallGet128 == [ op |-> "get128", size |-> 0 ]
CallGet128Buf == [ op |-> "get128buf", size |-> 0 ]

\* The call sequences of the threads that each own one engine.  The last two
\* are sipHash64's and sipHash128's (one update, one digest call); the third
\* also makes a second digest call; the first two make the same update calls
\* and differ in the digest call, and so do the next two.
Scripts ==
    { << CallUpdate(3), CallUpdate(0), CallUpdate(13), CallGet64 >>,
      << CallUpdate(3), CallUpdate(0), CallUpdate(13), CallGet128 >>,
      << CallUpdate(5), CallUpdate(6), CallGet64 >>,
      << CallUpdate(5), CallUpdate(6), CallGet128 >>,
      << CallUpdate(9), CallUpdate(7), CallGet128, CallGet64 >>,
      << CallUpdate(16), CallUpdate(1), CallGet128Buf >>,
      << CallUpdate(11), CallGet64 >>,
      << CallUpdate(5), CallGet128Buf >> }

\* The call sequences of an owner that hashes more than 255 bytes, 16 at a
\* time: 259 bytes and get64, 256 bytes and get128.
LongScripts ==
    { [i \in 1..16 |-> CallUpdate(16)] \o << CallUpdate(3), CallGet64 >>,
      [i \in 1..16 |-> CallUpdate(16)] \o << CallGet128 >> }

VARIABLES
    eng,        \* eng[e]: the members v0, v1, v2, v3, cnt, current_bytes of engine e
    key,        \* key[e]: the arguments engine e was constructed with
    fill,       \* fill[e]: the message the owner of e feeds it, chunk by chunk
    stream,     \* stream[e]: the bytes passed to update on e so far, in order
    ndigest,    \* ndigest[e]: digest calls made on e so far
    late,       \* late[e]: bytes passed to update on e after its first digest call
    ret,        \* ret[e]: what the last digest call on e returned
    acc,        \* acc[e]: size, reads, writes and rounds of the last update on e
    script,     \* script[e]: the call sequence of the thread owning e, if it has one
    pc          \* pc[e]: the position of that thread in script[e]; 0 for an owner
                \*        that may make any call at any time

vars == << eng, key, fill, stream, ndigest, late, ret, acc, script, pc >>

Constructed(E) ==
    /\ eng = [e \in E |-> SipHash(key[e].k0, key[e].k1)]
    /\ stream = [e \in E |-> << >>]
    /\ ndigest = [e \in E |-> 0]
    /\ late = [e \in E |-> 0]
    /\ ret = [e \in E |-> NoRet]
    /\ acc = [e \in E |-> NoAcc]

\* one engine, its owner free to make any call
Init ==
    /\ key \in [{1} -> Keys]
    /\ fill \in [{1} -> Fills]
    /\ script = [e \in {1} |-> << >>]
    /\ pc = [e \in {1} |-> 0]
    /\ Constructed({1})

\* two engines, each owned by a thread running a script
Init2 ==
    /\ key \in [{1, 2} -> Keys2]
    /\ fill = [e \in {1, 2} |-> "up"]
    /\ script \in [{1, 2} -> Scripts]
    /\ pc = [e \in {1, 2} |-> 1]
    /\ Constructed({1, 2})

\* one engine, its owner either free to make any call or running one of the
\* long scripts
Init3 ==
    /\ key \in [{1} -> Keys]
    /\ fill \in [{1} -> Fills]
    /\ script \in [{1} -> { << >> } \cup LongScripts]
    /\ pc = [e \in {1} |-> IF script[e] = << >> THEN 0 ELSE 1]
    /\ Constructed({1})

\* the owner of e makes call c next
Calls(e, c) ==
    /\ pc[e] > 0 => pc[e] <= Len(script[e]) /\ script[e][pc[e]] = c
    /\ pc' = [pc EXCEPT ![e] = IF @ = 0 THEN 0 ELSE @ + 1]
    /\ UNCHANGED << key, fill, script >>

\* Updated with current_bytes a static member, shared by all engines
UpdatedShared(e, size, chunk, t) ==
    /\ eng' = [x \in DOMAIN eng |->
                  IF x = e THEN t.s
                  ELSE [eng[x] EXCEPT !.current_bytes = t.s.current_bytes]]
    /\ stream' = [stream EXCEPT ![e] = @ \o chunk]
    /\ acc' = [acc EXCEPT ![e] = [ size |-> size, reads |-> t.reads,
                                   writes |-> t.writes, rounds |-> t.rounds ]]
    /\ late' = [late EXCEPT ![e] = IF ndigest[e] > 0 THEN @ + size ELSE @]
    /\ UNCHANGED << ndigest, ret >>

\* engine e after an update call of `size` bytes `chunk` that ran as t
Updated(e, size, chunk, t) ==
    /\ eng' = [eng EXCEPT ![e] = t.s]
    /\ stream' = [stream EXCEPT ![e] = @ \o chunk]
    /\ acc' = [acc EXCEPT ![e] = [ size |-> size, reads |-> t.reads,
                                   writes |-> t.writes, rounds |-> t.rounds ]]
    /\ late' = [late EXCEPT ![e] = IF ndigest[e] > 0 THEN @ + size ELSE @]
    /\ UNCHANGED << ndigest, ret >>

\* hash.update(data, size) on engine e, data pointing at the next size bytes
\* of the owner's message
Update(e, size, past) ==
    /\ pc[e] = 0 => Len(stream[e]) + size <= MaxStream
    /\ ndigest[e] > 0 => late[e] + size <= MaxLate
    /\ Calls(e, CallUpdate(size))
    /\ Updated(e, size, Slice(fill[e], Len(stream[e]), size),
               update(eng[e], [ bytes |-> Slice(fill[e], Len(stream[e]), size),
                                past |-> past ], size))

\* a digest call c on engine e: r is what the call did
Digest(e, c, r) ==
    /\ ndigest[e] < MaxDigests
    /\ Calls(e, c)
    /\ eng' = [eng EXCEPT ![e] = r.s]
    /\ ret' = [ret EXCEPT ![e] = [ op |-> c.op, out |-> r.out ]]
    /\ ndigest' = [ndigest EXCEPT ![e] = @ + 1]
    /\ UNCHANGED << stream, late, acc >>

\* Get64 with a guard: a call after the first returns what the first did
\* and leaves the engine alone
Get64Once(e) ==
    IF ndigest[e] = 0
    THEN Digest(e, CallGet64, get64(eng[e]))
    ELSE Digest(e, CallGet64, [ s |-> eng[e], out |-> ret[e].out ])

Get64(e) == Digest(e, CallGet64, get64(eng[e]))
Get128(e) == Digest(e, CallGet128, get128(eng[e]))
Get128Buf(e) == Digest(e, CallGet128Buf, get128buf(eng[e]))

DoUpdate == \E e \in DOMAIN eng, size \in 0..MaxChunk, past \in PastBytes :
                Update(e, size, past)
DoGet64 == \E e \in DOMAIN eng : Get64(e)
DoGet128 == \E e \in DOMAIN eng : Get128(e)
DoGet128Buf == \E e \in DOMAIN eng : Get128Buf(e)

Next == DoUpdate \/ DoGet64 \/ DoGet128 \/ DoGet128Buf

Spec == Init /\ [][Next]_vars

Spec2 == Init2 /\ [][Next]_vars

Spec3 == Init3 /\ [][Next]_vars

----------------------------------------------------------------------------
(* The reference SipHash-2-4 the claims compare the engine with, on the    *)
(* lanes << v0, v1, v2, v3 >>.  SipRound is written in the order of the    *)
(* SipHash paper, which is not the order of the SIPROUND macro.            *)

\* v0 += v1; v2 += v3; v1 <<<= 13; v3 <<<= 16
RefStepA(v) == << Add64(v[1], v[2]), ROTL(v[2], 13), Add64(v[3], v[4]), ROTL(v[4], 16) >>
\* v1 ^= v0; v3 ^= v2; v0 <<<= 32
RefStepB(v) == << ROTL(v[1], 32), Xor64(v[2], v[1]), v[3], Xor64(v[4], v[3]) >>
\* v2 += v1; v0 += v3; v1 <<<= 17; v3 <<<= 21
RefStepC(v) == << Add64(v[1], v[4]), ROTL(v[2], 17), Add64(v[3], v[2]), ROTL(v[4], 21) >>
\* v1 ^= v2; v3 ^= v0; v2 <<<= 32
RefStepD(v) == << v[1], Xor64(v[2], v[3]), ROTL(v[3], 32), Xor64(v[4], v[1]) >>

RefSipRound(v) == RefStepD(RefStepC(RefStepB(RefStepA(v))))

RefXorV3(v, m) == << v[1], v[2], v[3], Xor64(v[4], m) >>
RefXorV0(v, m) == << Xor64(v[1], m), v[2], v[3], v[4] >>

\* v3 ^= m, two SipRounds, v0 ^= m
RefCompress(v, m) ==
    Seq4(v, LAMBDA u : RefXorV3(u, m), RefSipRound, RefSipRound,
            LAMBDA u : RefXorV0(u, m))

\* lanes initialised as constant XOR key
RefInit(k0, k1) ==
    << Xor64(InitV0, k0), Xor64(InitV1, k1), Xor64(InitV2, k0), Xor64(InitV3, k1) >>

\* the j-th (from 0) little-endian 8-byte word of D
RefWord(D, j) == [i \in 1..8 |-> D[(8 * j) + i]]

\* the last word: the remaining 0..7 bytes of D, zero-padded, with
\* (length mod 256) in byte 7
RefLastWord(D) ==
    LET n == Len(D)
        w == n \div 8
    IN  [i \in 1..8 |-> IF i = 8 THEN n % 256
                        ELSE IF (8 * w) + i <= n THEN D[(8 * w) + i] ELSE 0]

\* v after compressing words j, j+1, .., w-1 of D
RECURSIVE RefWords(_, _, _, _)
RefWords(v, D, j, w) ==
    IF j >= w THEN v
    ELSE Strict(RefCompress(v, RefWord(D, j)), LAMBDA u : RefWords(u, D, j + 1, w))

\* the lanes after the first w words of D
RefLanes(k0, k1, D, w) == RefWords(RefInit(k0, k1), D, 0, w)

RefXorFF(v) == << v[1], v[2], Xor64(v[3], U64(255)), v[4] >>

\* the lanes at the end: the last word compressed, v2 ^= 0xff, four SipRounds
RefFourRounds(v) == Seq4(v, RefSipRound, RefSipRound, RefSipRound, RefSipRound)

\* the lanes at the end: the full words and then the last word compressed,
\* v2 ^= 0xff, four SipRounds
RefFinal(k0, k1, D) ==
    Seq4(RefLanes(k0, k1, D, Len(D) \div 8),
         LAMBDA v : RefCompress(v, RefLastWord(D)), RefXorFF, RefFourRounds,
         LAMBDA v : v)

RefFold(v) == Xor64(Xor64(Xor64(v[1], v[2]), v[3]), v[4])

\* SipHash-2-4 of D under the key (k0, k1): v0 ^ v1 ^ v2 ^ v3 at the end
RefSipHash(k0, k1, D) == Strict(RefFinal(k0, k1, D), RefFold)

\* The published SipHash-2-4 vectors (vectors_sip64 of the reference
\* implementation): entry n + 1 is the output, least significant byte first,
\* for the key 00 .. 0f and the input 00 01 .. (n-1).
Vectors ==
    <<
       <<  49,  14,  14, 221,  71, 219, 111, 114 >>,   \*  0: 31 0e 0e dd 47 db 6f 72
       << 253, 103, 220, 147, 197,  57, 248, 116 >>,   \*  1: fd 67 dc 93 c5 39 f8 74
       <<  90,  79, 169, 217,   9, 128, 108,  13 >>,   \*  2: 5a 4f a9 d9 09 80 6c 0d
       <<  45, 126, 251, 215, 150, 102, 103, 133 >>,   \*  3: 2d 7e fb d7 96 66 67 85
       << 183, 135, 113,  39, 224, 148,  39, 207 >>,   \*  4: b7 87 71 27 e0 94 27 cf
       << 141, 166, 153, 205, 100,  85, 118,  24 >>,   \*  5: 8d a6 99 cd 64 55 76 18
       << 206, 227, 254,  88, 110,  70, 201, 203 >>,   \*  6: ce e3 fe 58 6e 46 c9 cb
       <<  55, 209,   1, 139, 245,   0,   2, 171 >>,   \*  7: 37 d1 01 8b f5 00 02 ab
       <<  98,  36, 147, 154, 121, 245, 245, 147 >>,   \*  8: 62 24 93 9a 79 f5 f5 93
       << 176, 228, 169,  11, 223, 130,   0, 158 >>,   \*  9: b0 e4 a9 0b df 82 00 9e
       << 243, 185, 221, 148, 197, 187,  93, 122 >>,   \* 10: f3 b9 dd 94 c5 bb 5d 7a
       << 167, 173, 107,  34,  70,  47, 179, 244 >>,   \* 11: a7 ad 6b 22 46 2f b3 f4
       << 251, 229,  14, 134, 188, 143,  30, 117 >>,   \* 12: fb e5 0e 86 bc 8f 1e 75
       << 144,  61, 132, 192,  39,  86, 234,  20 >>,   \* 13: 90 3d 84 c0 27 56 ea 14
       << 238, 242, 122, 142, 144, 202,  35, 247 >>,   \* 14: ee f2 7a 8e 90 ca 23 f7
       << 229,  69, 190,  73,  97, 202,  41, 161 >>,   \* 15: e5 45 be 49 61 ca 29 a1
       << 219, 155, 194,  87, 127, 204,  42,  63 >>,   \* 16: db 9b c2 57 7f cc 2a 3f
       << 148,  71, 190,  44, 245, 233, 154, 105 >>,   \* 17: 94 47 be 2c f5 e9 9a 69
       << 156, 211, 141, 150, 240, 179, 193,  75 >>,   \* 18: 9c d3 8d 96 f0 b3 c1 4b
       << 189,  97, 121, 167,  29, 201, 109, 187 >>,   \* 19: bd 61 79 a7 1d c9 6d bb
       << 152, 238, 162,  26, 242,  92, 214, 190 >>,   \* 20: 98 ee a2 1a f2 5c d6 be
       << 199, 103,  59,  46, 176, 203, 242, 208 >>,   \* 21: c7 67 3b 2e b0 cb f2 d0
       << 136,  62, 163, 227, 149, 103,  83, 147 >>,   \* 22: 88 3e a3 e3 95 67 53 93
       << 200, 206,  92, 205, 140,   3,  12, 168 >>,   \* 23: c8 ce 5c cd 8c 03 0c a8
       << 148, 175,  73, 246, 198,  80, 173, 184 >>   \* 24: 94 af 49 f6 c6 50 ad b8
    >>

----------------------------------------------------------------------------
(* Claims                                                                  *)

\* the bytes engine e had been given when its first digest call was made
AtDigest(e) == SubSeq(stream[e], 1, Len(stream[e]) - late[e])

\* what digest call op returns on the members s
DigestOf(op, s) ==
    IF op = "get64" THEN get64(s).out
    ELSE IF op = "get128" THEN get128(s).out
    ELSE get128buf(s).out

\* a fresh engine with the key of e that received D in one update call
OneShot(e, D) ==
    update(SipHash(key[e].k0, key[e].k1), [ bytes |-> D, past |-> 0 ], Len(D)).s

\* C1: streaming equivalence.  Whatever chunks the bytes reached engine e
\* in, its one digest call returned what the same digest call returns on a
\* fresh engine with the same key that received the same bytes in one update.
C1_StreamingEquivalence ==
    \A e \in DOMAIN eng :
        ndigest[e] = 1 =>
            ret[e].out = Strict(OneShot(e, AtDigest(e)), LAMBDA s : DigestOf(ret[e].op, s))

\* 11 bytes, the last of them passed alone in an update call that found 2
\* bytes pending, then get64: what was absorbed in several chunks, one of
\* them a single byte at an offset that is no multiple of 8
C1_Witness ==
    /\ ndigest[1] = 1 /\ late[1] = 0 /\ ret[1].op = "get64"
    /\ Len(stream[1]) = 11 /\ acc[1].size = 1

\* C2: get64 is SipHash-2-4.  The first get64 on engine e returned the
\* reference SipHash-2-4 of the bytes absorbed under the key of e, and for the
\* key 00 .. 0f and the input 00 01 02 .. it returned the published vector.
C2_IsSipHash24 ==
    \A e \in DOMAIN eng :
        (ndigest[e] = 1 /\ ret[e].op = "get64") =>
            /\ ret[e].out = RefSipHash(key[e].k0, key[e].k1, AtDigest(e))
            /\ (/\ key[e] = [k0 |-> TestK0, k1 |-> TestK1]
                /\ fill[e] = "up"
                /\ Len(AtDigest(e)) < Len(Vectors))
               => ret[e].out = Vectors[Len(AtDigest(e)) + 1]

\* get64 under the key 00 .. 0f after the 17 bytes 00 .. 10: two full words
\* and a last word of one byte
C2_Witness ==
    /\ ndigest[1] = 1 /\ late[1] = 0 /\ ret[1].op = "get64"
    /\ key[1] = [k0 |-> TestK0, k1 |-> TestK1] /\ fill[1] = "up"
    /\ Len(stream[1]) = 17
    /\ ret[1].out = << 148, 71, 190, 44, 245, 233, 154, 105 >>

\* There is no witness for C3, which the code does not satisfy.
\* C3: finalization is terminal.  Once a digest call has been made on an
\* engine, no later step feeds it more data or finalizes it again: its
\* members, the bytes it was given and its count of digest calls stay as
\* they are.
C3_FinalizationTerminal ==
    [][ \A e \in DOMAIN eng :
            ndigest[e] >= 1 =>
                /\ eng'[e] = eng[e]
                /\ stream'[e] = stream[e]
                /\ ndigest'[e] = ndigest[e] ]_vars

\* the lanes of the members s
Lanes(s) == << s.v0, s.v1, s.v2, s.v3 >>

\* the XOR combination of the lanes v that digest call op returns
Combined(op, v) ==
    IF op = "get64" THEN Xor64(Xor64(Xor64(v[1], v[2]), v[3]), v[4])
    ELSE IF op = "get128" THEN [ lo |-> Xor64(v[1], v[2]), hi |-> Xor64(v[3], v[4]) ]
    ELSE Xor64(v[1], v[2]) \o Xor64(v[3], v[4])

\* C4: every digest call runs finalize, unguarded.  A step that is a digest
\* call on engine e, the first or a later one, leaves the members finalize
\* gives from the members before the call, already finalized or not, and
\* returns the XOR combination of the lanes it leaves; it returns no error.
C4_DigestRerunsFinalize ==
    [][ \A e \in DOMAIN eng :
            ndigest'[e] > ndigest[e] =>
                /\ eng'[e] = finalize(eng[e])
                /\ ret'[e].op \in { "get64", "get128", "get128buf" }
                /\ ret'[e].out = Combined(ret'[e].op, Lanes(eng'[e])) ]_vars

\* get64 called a second time on an engine that absorbed 9 bytes
C4_Witness ==
    /\ ndigest[1] = 2 /\ late[1] = 0 /\ ret[1].op = "get64"
    /\ Len(stream[1]) = 9

\* C6: digest extraction.  After the one finalization of the bytes absorbed,
\* the lanes are those of SipHash-2-4 at its end; get64 returned
\* v0 ^ v1 ^ v2 ^ v3, get128 returned lo = v0 ^ v1 and hi = v2 ^ v3, and the
\* buffer form wrote the same two words, the low one at out[0 .. 7] and the
\* high one at out[8 .. 15].
C6_DigestExtraction ==
    \A e \in DOMAIN eng :
        (ndigest[e] = 1 /\ late[e] = 0) =>
            Strict(RefFinal(key[e].k0, key[e].k1, stream[e]), LAMBDA v :
                /\ Lanes(eng[e]) = v
                /\ ret[e].op = "get64" =>
                       ret[e].out = Xor64(Xor64(Xor64(v[1], v[2]), v[3]), v[4])
                /\ ret[e].op = "get128" =>
                       /\ ret[e].out.lo = Xor64(v[1], v[2])
                       /\ ret[e].out.hi = Xor64(v[3], v[4])
                /\ ret[e].op = "get128buf" =>
                       /\ SubSeq(ret[e].out, 1, 8) = Xor64(v[1], v[2])
                       /\ SubSeq(ret[e].out, 9, 16) = Xor64(v[3], v[4]))

\* the buffer form of get128 after 9 bytes: 16 bytes written
C6_Witness ==
    /\ ndigest[1] = 1 /\ late[1] = 0 /\ ret[1].op = "get128buf"
    /\ Len(stream[1]) = 9 /\ Len(ret[1].out) = 16

\* how many times offset p occurs in the sequence of reads
Times(reads, p) == Cardinality({ i \in 1..Len(reads) : reads[i] = p })

\* C7: bounded reads.  The last update call on engine e, of any size and in
\* any carry state, read each of data[0 .. size-1] exactly once and nothing
\* at data[size] or beyond, and wrote current_bytes only at indices 0 .. 7;
\* and the finalization that followed gave the SipHash-2-4 of the bytes
\* absorbed.
C7_BoundedReads ==
    \A e \in DOMAIN eng :
        acc[e].size >= 0 =>
            /\ \A i \in 1..Len(acc[e].reads) : acc[e].reads[i] \in 0..(acc[e].size - 1)
            /\ \A p \in 0..(acc[e].size - 1) : Times(acc[e].reads, p) = 1
            /\ \A i \in 1..Len(acc[e].writes) : acc[e].writes[i] \in 0..7
            /\ (ndigest[e] = 1 /\ late[e] = 0 /\ ret[e].op = "get64") =>
                   ret[e].out = RefSipHash(key[e].k0, key[e].k1, stream[e])

\* update with size 16 on an engine holding one pending byte, then get64
C7_Witness ==
    /\ acc[1].size = 16 /\ Len(stream[1]) = 17 /\ Len(acc[1].reads) = 16
    /\ ndigest[1] = 1 /\ late[1] = 0 /\ ret[1].op = "get64"

\* C9: carry invariant.  After construction and after every update call,
\* until a digest call is made, cnt & 7 is the number of bytes absorbed that
\* are not yet part of a full word, and current_bytes[0 .. (cnt & 7) - 1]
\* holds those bytes, the last cnt & 7 bytes of the stream, in stream order.
C9_CarryInvariant ==
    \A e \in DOMAIN eng :
        ndigest[e] = 0 =>
            LET n == Len(stream[e])
                r == CntAnd7(eng[e])
            IN  /\ r = n % 8
                /\ \A i \in 1..r : eng[e].current_bytes[i] = stream[e][n - r + i]

\* 11 bytes absorbed, the last one by a call that topped up 2 pending bytes
C9_Witness ==
    /\ ndigest[1] = 0 /\ Len(stream[1]) = 11 /\ acc[1].size = 1
    /\ CntAnd7(eng[1]) = 3

\* the value of the low 4 bytes of the u64 x
Low32(x) == x[1] + (256 * x[2]) + (65536 * x[3]) + (16777216 * (x[4] % 128))

\* C10: lane invariant.  After construction and any update calls, until a
\* digest call is made, the lanes are the initial lanes with the first
\* floor(cnt / 8) little-endian 8-byte words of the stream compressed into
\* them in order, whatever the chunks were and whatever bytes are pending.
C10_LaneInvariant ==
    \A e \in DOMAIN eng :
        ndigest[e] = 0 =>
            Lanes(eng[e]) = RefLanes(key[e].k0, key[e].k1, stream[e],
                                     Low32(eng[e].cnt) \div 8)

\* 18 bytes absorbed, the last 9 by a call that found one byte pending: two
\* words compressed and two bytes pending
C10_Witness ==
    /\ ndigest[1] = 0 /\ Len(stream[1]) = 18 /\ acc[1].size = 9
    /\ Low32(eng[1].cnt) \div 8 = 2

----------------------------------------------------------------------------
(* Two engines, each owned by one thread (Spec2)                           *)

\* the members, bytes, return value and access record of a fresh engine
SoloStart(e) ==
    [ s |-> SipHash(key[e].k0, key[e].k1), stream |-> << >>,
      ret |-> NoRet, acc |-> NoAcc ]

\* r after call c made alone, the memory past the buffer holding zeros
SoloCall(e, r, c) ==
    IF c.op = "update"
    THEN Strict(update(r.s, [ bytes |-> Slice(fill[e], Len(r.stream), c.size),
                              past |-> 0 ], c.size),
                LAMBDA t : [ s |-> t.s,
                             stream |-> r.stream \o Slice(fill[e], Len(r.stream), c.size),
                             ret |-> r.ret,
                             acc |-> [ size |-> c.size, reads |-> t.reads,
                                       writes |-> t.writes, rounds |-> t.rounds ] ])
    ELSE Strict(IF c.op = "get64" THEN get64(r.s)
                ELSE IF c.op = "get128" THEN get128(r.s) ELSE get128buf(r.s),
                LAMBDA d : [ s |-> d.s, stream |-> r.stream,
                             ret |-> [ op |-> c.op, out |-> d.out ], acc |-> r.acc ])

\* the first k calls of script[e] made on a fresh engine, with no other
\* engine in existence
RECURSIVE SoloRun(_, _)
SoloRun(e, k) ==
    IF k = 0 THEN SoloStart(e)
    ELSE Strict(SoloRun(e, k - 1), LAMBDA r : SoloCall(e, r, script[e][k]))

\* C5: instance independence.  However the calls of the two threads are
\* interleaved, each engine's lanes, counter and carry buffer, the digest it
\* returned and the accesses of its last update are those of its own calls
\* so far run alone.
C5_InstanceIndependence ==
    \A e \in DOMAIN eng :
        pc[e] > 0 =>
            Strict(SoloRun(e, pc[e] - 1), LAMBDA r :
                /\ eng[e] = r.s
                /\ ret[e] = r.ret
                /\ acc[e] = r.acc
                /\ stream[e] = r.stream)

\* both threads are through their different scripts, under different keys
C5_Witness ==
    /\ DOMAIN eng = {1, 2}
    /\ key[1] # key[2]
    /\ script[1] = << CallUpdate(3), CallUpdate(0), CallUpdate(13), CallGet64 >>
    /\ script[2] = << CallUpdate(9), CallUpdate(7), CallGet128, CallGet64 >>
    /\ pc[1] = 5 /\ pc[2] = 5
    /\ ret[1].out # ret[2].out

\* C8: determinism.  Two engines constructed with the same key whose owners
\* have made the same calls with the same bytes are in the same state and
\* got the same digest, whatever lay past the buffers and however the calls
\* were interleaved; and an owner that made sipHash64's or sipHash128's calls
\* got what sipHash64 or sipHash128 returns on those bytes, whatever lies
\* past them.
C8_Determinism ==
    /\ \A e1, e2 \in DOMAIN eng :
           (/\ key[e1] = key[e2] /\ fill[e1] = fill[e2]
            /\ script[e1] = script[e2] /\ pc[e1] = pc[e2]) =>
               /\ eng[e1] = eng[e2]
               /\ ret[e1] = ret[e2]
    /\ \A e \in DOMAIN eng :
           (/\ pc[e] = 3 /\ Len(script[e]) = 2 /\ ndigest[e] = 1
            /\ key[e] = [k0 |-> Zero64, k1 |-> Zero64]) =>
               \A past \in PastBytes :
                   ret[e].out =
                       IF ret[e].op = "get64"
                       THEN sipHash64([ bytes |-> stream[e], past |-> past ],
                                      Len(stream[e]))
                       ELSE sipHash128([ bytes |-> stream[e], past |-> past ],
                                       Len(stream[e]))

\* two engines with the key (0, 0) whose owners both made sipHash64's calls
\* on the same 11 bytes
C8_Witness ==
    /\ DOMAIN eng = {1, 2}
    /\ key[1] = [k0 |-> Zero64, k1 |-> Zero64] /\ key[2] = key[1]
    /\ script[1] = << CallUpdate(11), CallGet64 >> /\ script[2] = script[1]
    /\ pc[1] = 3 /\ pc[2] = 3
    /\ ret[1].op = "get64" /\ ret[2] = ret[1]

----------------------------------------------------------------------------
(* One engine, short streams in every chunking and long streams (Spec3)    *)

\* the number of bytes pending in engine e when its last update call was made
CarryBefore(e) == (Len(stream[e]) - acc[e].size) % 8

\* C11: counter invariant.  After construction and any update calls, cnt is
\* the sum of the sizes of the calls, on each path through update: the early
\* return, the completed pending word, the aligned start.
C11_CounterInvariant ==
    \A e \in DOMAIN eng :
        /\ eng[e].cnt = U64(Len(stream[e]))
        /\ Low32(eng[e].cnt) = Len(stream[e])

\* 259 bytes absorbed, the last 3 of them by a call that started aligned:
\* the count has carried into its second byte
C11_Witness ==
    /\ ndigest[1] = 0 /\ Len(stream[1]) = 259 /\ acc[1].size = 3
    /\ CarryBefore(1) = 0
    /\ eng[1].cnt = << 3, 1, 0, 0, 0, 0, 0, 0 >>

\* C12: zero padding of the pending word.  After construction and any
\* update calls, until a digest call is made, current_bytes[cnt & 7 .. 7] are
\* all zero, also after a call that returned early and after a call that
\* completed a pending word and left a new remainder.
C12_ZeroPadding ==
    \A e \in DOMAIN eng :
        ndigest[e] = 0 =>
            \A i \in (CntAnd7(eng[e]) + 1)..8 : eng[e].current_bytes[i] = 0

\* 13 bytes ff fe .. absorbed, the last 12 by a call that found one byte
\* pending: it completed the word and left a remainder of 5 bytes
C12_Witness ==
    /\ ndigest[1] = 0 /\ fill[1] = "down"
    /\ Len(stream[1]) = 13 /\ acc[1].size = 12 /\ CarryBefore(1) = 1
    /\ eng[1].current_bytes = << 247, 246, 245, 244, 243, 0, 0, 0 >>

\* the word the claim describes for a stream D: the last Len(D) mod 8 bytes
\* of D, zeros up to byte 6, and Len(D) mod 256 in byte 7
FinalWord(D) ==
    LET n == Len(D)
        r == n % 8
        byte(i) == IF i <= r THEN D[n - r + i] ELSE 0
    IN  << byte(1), byte(2), byte(3), byte(4), byte(5), byte(6), byte(7), n % 256 >>

\* C13: final word.  The first digest call on engine e, made after n bytes,
\* leaves in current_word the last n mod 8 bytes of the stream, zeros up to
\* byte 6 and n mod 256 in byte 7; the pending bytes are the ones that were
\* there before the call; and the lanes it leaves are the lanes before the
\* call with that word XORed into lane 3, two rounds, the word XORed into
\* lane 0, then lane 2 XORed with 0xff, then four rounds.
C13_FinalWord ==
    [][ \A e \in DOMAIN eng :
            (ndigest[e] = 0 /\ ndigest'[e] = 1) =>
                /\ eng'[e].current_bytes = FinalWord(stream[e])
                /\ CntAnd7(eng[e]) <= 7
                /\ \A i \in 1..CntAnd7(eng[e]) :
                       eng'[e].current_bytes[i] = eng[e].current_bytes[i]
                /\ Lanes(eng'[e]) =
                       Strict(RefCompress(Lanes(eng[e]), FinalWord(stream[e])),
                              LAMBDA v : RefFourRounds(RefXorFF(v))) ]_vars

\* get64 after the 259 bytes ff fe ..: three bytes pending and 259 mod 256 = 3
\* in byte 7
C13_Witness ==
    /\ ndigest[1] = 1 /\ fill[1] = "down" /\ Len(stream[1]) = 259
    /\ ret[1].op = "get64"
    /\ eng[1].current_bytes = << 255, 254, 253, 0, 0, 0, 0, 3 >>

\* C14: a partial fill leaves the lanes alone.  An update call on a not yet
\* finalized engine e with (cnt & 7) + size < 8 leaves v0 .. v3 and
\* current_bytes[0 .. (cnt & 7) - 1] as they were, stores the size new bytes
\* at current_bytes[cnt & 7 .. (cnt & 7) + size - 1], adds size to cnt and
\* runs no SIPROUND.  (With one engine, a step that changes the state and
\* makes no digest call is an update call, of size acc'[e].size.)
C14_PartialFillFrame ==
    [][ \A e \in DOMAIN eng :
            (/\ ndigest[e] = 0 /\ ndigest'[e] = 0
             /\ CntAnd7(eng[e]) + acc'[e].size < 8) =>
                /\ Lanes(eng'[e]) = Lanes(eng[e])
                /\ \A i \in 1..CntAnd7(eng[e]) :
                       eng'[e].current_bytes[i] = eng[e].current_bytes[i]
                /\ \A i \in 1..acc'[e].size :
                       eng'[e].current_bytes[CntAnd7(eng[e]) + i] =
                           stream'[e][Len(stream[e]) + i]
                /\ Len(stream'[e]) = Len(stream[e]) + acc'[e].size
                /\ eng'[e].cnt = Add64(eng[e].cnt, U64(acc'[e].size))
                /\ acc'[e].rounds = 0 ]_vars

\* 13 bytes ff fe .. absorbed, the last 2 by a call that found 3 bytes
\* pending and returned early with 5 pending
C14_Witness ==
    /\ ndigest[1] = 0 /\ fill[1] = "down"
    /\ Len(stream[1]) = 13 /\ acc[1].size = 2 /\ CarryBefore(1) = 3
    /\ acc[1].rounds = 0 /\ acc[1].writes = << 3, 4 >>
    /\ CntAnd7(eng[1]) = 5

\* C15: an empty update is a no-op.  An update call with size 0 on a not
\* yet finalized engine leaves v0 .. v3, cnt and all of current_bytes as they
\* were, whether bytes are pending or not.  (With one engine, a step that
\* changes the state and makes no digest call is an update call, of size
\* acc'[e].size.)
C15_EmptyUpdateNoOp ==
    [][ \A e \in DOMAIN eng :
            (ndigest[e] = 0 /\ ndigest'[e] = 0 /\ acc'[e].size = 0) =>
                /\ eng'[e] = eng[e]
                /\ stream'[e] = stream[e]
                /\ acc'[e].rounds = 0 /\ acc'[e].reads = << >> ]_vars

\* an update of size 0 made with 3 of 11 bytes pending
C15_Witness ==
    /\ ndigest[1] = 0 /\ Len(stream[1]) = 11 /\ acc[1].size = 0
    /\ CntAnd7(eng[1]) = 3 /\ acc[1].writes = << >>

----------------------------------------------------------------------------
(* Two engines compared (Spec2)                                            *)

\* the update calls a script makes before its first digest call
UpdatesOf(sc) ==
    SubSeq(sc, 1, Cardinality({ i \in 1..Len(sc) :
                                   \A j \in 1..i : sc[j].op = "update" }))

\* C16: the 64-bit digest is the XOR of the two 128-bit halves.  When the
\* one digest call on engine e1 was get64 and the one on engine e2 was
\* get128, the engines having been constructed with the same key and given
\* the same update calls, get64 returned lo XOR hi.
C16_Get64IsLoXorHi ==
    \A e1, e2 \in DOMAIN eng :
        (/\ key[e1] = key[e2] /\ fill[e1] = fill[e2]
         /\ UpdatesOf(script[e1]) = UpdatesOf(script[e2])
         /\ stream[e1] = stream[e2]
         /\ ndigest[e1] = 1 /\ ret[e1].op = "get64"
         /\ ndigest[e2] = 1 /\ ret[e2].op = "get128") =>
            ret[e1].out = Xor64(ret[e2].out.lo, ret[e2].out.hi)

\* under the key 00 .. 0f, one engine was given 5 and 6 bytes and asked for
\* get64, the other was given the same and asked for get128
C16_Witness ==
    /\ DOMAIN eng = {1, 2}
    /\ key[1] = [k0 |-> TestK0, k1 |-> TestK1] /\ key[2] = key[1]
    /\ script[1] = << CallUpdate(5), CallUpdate(6), CallGet64 >>
    /\ script[2] = << CallUpdate(5), CallUpdate(6), CallGet128 >>
    /\ pc[1] = 4 /\ pc[2] = 4
    /\ ret[1].op = "get64" /\ ret[2].op = "get128"
    /\ ret[1].out # ret[2].out.lo

\* a - b on u64, wrapping: a + ~b + 1
Sub64(a, b) ==
    Add64(a, Add64(<< 255 - b[1], 255 - b[2], 255 - b[3], 255 - b[4],
                      255 - b[5], 255 - b[6], 255 - b[7], 255 - b[8] >>, U64(1)))

\* The statements of SIPROUND undone, last statement first, on the lanes
\* << v0, v1, v2, v3 >>: a rotation left by b is undone by one by 64 - b,
\* += by -=, ^= by itself.
\* undoes  v2 += v1; v1 = ROTL(v1, 17); v1 ^= v2; v2 = ROTL(v2, 32);
BackD(v) ==
    LET v2 == ROTL(v[3], 32)
        v1 == ROTL(Xor64(v[2], v2), 47)
    IN  << v[1], v1, Sub64(v2, v1), v[4] >>
\* undoes  v0 += v3; v3 = ROTL(v3, 21); v3 ^= v0;
BackC(v) ==
    LET v3 == ROTL(Xor64(v[4], v[1]), 43)
    IN  << Sub64(v[1], v3), v[2], v[3], v3 >>
\* undoes  v2 += v3; v3 = ROTL(v3, 16); v3 ^= v2;
BackB(v) ==
    LET v3 == ROTL(Xor64(v[4], v[3]), 48)
    IN  << v[1], v[2], Sub64(v[3], v3), v3 >>
\* undoes  v0 += v1; v1 = ROTL(v1, 13); v1 ^= v0; v0 = ROTL(v0, 32);
BackA(v) ==
    LET v0 == ROTL(v[1], 32)
        v1 == ROTL(Xor64(v[2], v0), 51)
    IN  << Sub64(v0, v1), v1, v[3], v[4] >>

SipRoundBack(v) == Seq4(v, BackD, BackC, BackB, BackA)

\* the members s with the lanes v
WithLanes(s, v) == [s EXCEPT !.v0 = v[1], !.v1 = v[2], !.v2 = v[3], !.v3 = v[4]]

\* C17: state injectivity.  A SIPROUND is a bijection on the lanes: on the
\* lanes of every engine it is undone by SipRoundBack, and it undoes
\* SipRoundBack.  Two engines constructed with different keys whose owners
\* have made the same calls with the same bytes have different lanes: after
\* construction, after each update call and after finalization.
C17_StateInjectivity ==
    /\ \A e \in DOMAIN eng :
           /\ Strict(Lanes(SIPROUND(eng[e])), SipRoundBack) = Lanes(eng[e])
           /\ Strict(WithLanes(eng[e], SipRoundBack(Lanes(eng[e]))),
                     LAMBDA s : Lanes(SIPROUND(s))) = Lanes(eng[e])
    /\ \A e1, e2 \in DOMAIN eng :
           (/\ key[e1] # key[e2] /\ fill[e1] = fill[e2]
            /\ script[e1] = script[e2] /\ pc[e1] = pc[e2]) =>
               Lanes(eng[e1]) # Lanes(eng[e2])

\* two engines whose keys differ in one bit of k0, both given 5 and 6 bytes
\* and finalized by get64
C17_Witness ==
    /\ DOMAIN eng = {1, 2}
    /\ key[1] = [k0 |-> Zero64, k1 |-> Zero64]
    /\ key[2] = [k0 |-> U64(1), k1 |-> Zero64]
    /\ script[1] = << CallUpdate(5), CallUpdate(6), CallGet64 >>
    /\ script[2] = script[1]
    /\ pc[1] = 4 /\ pc[2] = 4
    /\ ndigest[1] = 1 /\ ndigest[2] = 1
    /\ Lanes(eng[1]) # Lanes(eng[2])

====
